---- MODULE Spec2Model ----
(***************************************************************************)
(* Model of scraper/scheduler.py (class TaskScheduler): caller threads     *)
(* that submit and cancel tasks, the single worker thread that drains the  *)
(* task queue, and the task-history document written by                    *)
(* _save_task_history.  Every Python statement that reads or writes a task *)
(* dict, active_tasks or the queue is one atomic step, taken together with *)
(* the _save_task_history() call that follows it; threads interleave       *)
(* between these steps.                                                    *)
(*                                                                         *)
(* Nothing in the repository calls schedule.run_pending(), so a job        *)
(* registered with schedule.every()...do() is kept in the registry but is  *)
(* never fired: the model has the registry and no timer step.              *)
(*                                                                         *)
(* Further specifications over the same variables:                         *)
(*   SpecRestart    the scheduler with restarts of its process             *)
(*   SpecCrawl      scraper/core.py: one call of scrape_category, with     *)
(*                  scrape_page, extract_item_data and get_product_details *)
(*                  (SpecCrawlFair: the calling thread keeps running)      *)
(*   SpecFront      app.py: start_scraping requests and run_scraper threads*)
(* core.py imports setup_selenium_driver and safe_get_url from             *)
(* selenium_utils, which does not define them; the model takes their       *)
(* outcomes (return or raise, True or False) from the call sites.          *)
(***************************************************************************)
EXTENDS Integers, Sequences, FiniteSets, TLC

\* ---------------------------------------------------------------- bounds
NTasks == 2

Tasks == 1..NTasks

\* start_scraping requests made to app.py, and the most (class, subcategory)
\* pairs one request selects
NRequests == 2
MaxPairs == 2
Requests == 1..NRequests
None == "none"
\* Python's None where a task is expected (dict.get on a missing key)
NoTask == 0

\* schedule_type values the callers pass, and the two task types
ScheduleTypes == {"immediate", "daily", "weekly"}
TaskTypes == {"scraping", "dataset_creation"}

\* the clock seconds that matter: those in which some submit call reads the
\* clock, numbered in order (NTasks calls read it in at most NTasks seconds)
Seconds == 0..(NTasks - 1)

\* task ids: f"scrape_{now:%Y%m%d_%H%M%S}" / f"dataset_{...}": prefix and second
Ids == TaskTypes \X Seconds

Terminal == {"completed", "failed", "cancelled"}
Statuses == {"scheduled", "queued", "running"} \cup Terminal

VARIABLES
    now,         \* wall clock, in whole seconds
    pc,          \* position of the caller thread submitting task t
    ttype,       \* task['type']
    stype,       \* task['schedule_type']
    tid,         \* task['id']
    status,      \* task['status']
    error,       \* task['error'] ("" while the key is absent)
    tb,          \* task['traceback'] ("" while the key is absent)
    queue,       \* self.task_queue
    active,      \* self.active_tasks: id -> task (NoTask: no such key)
    jobs,        \* jobs registered with the schedule module, tagged tid[t]
    file,        \* logs/task_history/task_history.json, as last dumped
    wpc, cur,    \* worker thread: position and the task it took off the queue
    cpc, ctask,  \* cancelling thread: position and the task it looked up
    last,        \* the cancel call in progress: id, status read, result
    log,         \* history: the worker's events (start, returned, raised), in order
    puts,        \* history: how often task t was put on the queue
    pred,        \* history: tasks whose submit had returned when t's began
    okCancelled, \* history: tasks for which cancel_task returned True
    task_history \* self.task_history

\* scraper/core.py: one call of EbayJewelryScraper.scrape_category
VARIABLES
    kpc,         \* position of the thread inside scrape_category
    max_items,   \* argument max_items
    max_pages,   \* argument max_pages
    driver,      \* scrape_category's local driver: None, "open" or "closed"
    ddriver,     \* get_product_details' local driver: None or "open"
    all_items,   \* all_items: the urls of the records collected
    page,        \* page
    listings,    \* scrape_page: the listing containers not yet examined
    items,       \* scrape_page: items (the urls of the records of this page)
    requested,   \* history: the page numbers passed to get_search_url, in order
    nav,         \* history: whether each of these pages was loaded ("ok", "failed")
    got,         \* history: what each scrape_page call returned, in order
    loaded,      \* history: the containers each scrape_page call found, in order
    created,     \* history: browser sessions created
    quits        \* history: driver.quit() calls made

crawlVars == <<kpc, max_items, max_pages, driver, ddriver, all_items, page,
               listings, items, requested, nav, got, loaded, created, quits>>

\* app.py: the start_scraping requests and their run_scraper threads
VARIABLES
    rpc,         \* position of request r: its handler, then its run_scraper thread
    left,        \* run_scraper of r: the (class, subcategory) pairs still to scrape
    progress     \* scraping_progress: 'status' and 'error'

frontVars == <<rpc, left, progress>>

\* selenium_utils.py: one SeleniumManager, the sessions it creates and one
\* safe_get call at a time
VARIABLES
    spc,         \* "new", then the position of the caller inside the manager
    nproxies,    \* len(self.proxy_list)
    current_proxy_index,
    bound,       \* history: the pool entry given to each session created
    max_retries, \* safe_get: the argument
    attempt,     \* safe_get: the loop variable
    challenge,   \* whether the page in the browser shows a bot challenge
    result,      \* safe_get: "none", then "true", "false" or "raised"
    gets,        \* history: driver.get calls of this safe_get call
    fails,       \* history: times the except clause was entered
    sleeps,      \* history: the delays slept in the except clause, in order
    cooldowns,   \* history: sleeps made by _handle_antibot
    detected     \* history: _detect_antibot returned True in this call

navVars == <<spc, nproxies, current_proxy_index, bound, max_retries, attempt, challenge,
             result, gets, fails, sleeps, cooldowns, detected>>

\* core.py: extract_item_data applied to one listing container
VARIABLES
    listing,     \* the container passed to extract_item_data
    item_data    \* what the call returned

extractVars == <<listing, item_data>>

\* product_collector.py: one call of _extract_with_selectors / _find_element
VARIABLES
    tag,         \* the container: what select_one finds for each selector
    field,       \* what _extract_with_selectors returned
    found        \* the selector whose element _find_element returned (0: None)

selectVars == <<tag, field, found>>

\* selenium_utils.py: one call of scroll_page
VARIABLES
    qpc,         \* position of the caller inside scroll_page
    height,      \* document.body.scrollHeight of the page
    growth,      \* the times the page will still grow
    last_height, \* scroll_page: last_height
    scrolls,     \* history: window.scrollTo calls made
    changes      \* history: readings that differed from the reading before

scrollVars == <<qpc, height, growth, last_height, scrolls, changes>>

\* scheduler.py: the thread that calls stop()
VARIABLES
    stop_event,  \* self.stop_event is set
    stpc,        \* position of the caller inside stop()
    after        \* history: tasks the worker took off the queue after the set

stopVars == <<stop_event, stpc, after>>

\* scheduler.py: the thread that calls cleanup_old_tasks(days)
VARIABLES
    clpc,        \* position of the caller inside cleanup_old_tasks
    days,        \* the argument
    cut,         \* the completions (entries of log) made before cutoff_date
    size0,       \* len(self.active_tasks) when the iteration began
    todo,        \* the keys the iteration has not yet reached
    cleaned,     \* cleaned_tasks
    clerr        \* the exception that left cleanup_old_tasks, if any

cleanVars == <<clpc, days, cut, size0, todo, cleaned, clerr>>

\* the variables of the models added after the scheduler's, crawl's and
\* front end's
lateVars == <<selectVars, scrollVars, stopVars, cleanVars>>

taskVars == <<ttype, stype, tid, status, error, tb>>
progVars == <<pc, taskVars, queue, active, jobs, file, wpc, cur>>
histVars == <<log, puts, pred, okCancelled>>
\* what no step of a submit, worker or cancel call writes
otherVars == <<task_history, crawlVars, frontVars, navVars, extractVars, lateVars>>
vars == <<now, progVars, cpc, ctask, last, histVars, otherVars>>
\* what no step of scrape_category or app.py writes: the scheduler's variables
\* and those of the other models
schedVars == <<now, progVars, cpc, ctask, last, histVars, task_history, navVars,
               extractVars, lateVars>>
\* what no step of SeleniumManager or extract_item_data writes
baseVars == <<now, progVars, cpc, ctask, last, histVars, task_history, crawlVars,
              frontVars, lateVars>>
\* what no step of _extract_with_selectors, scroll_page, stop or
\* cleanup_old_tasks writes, the scheduler's variables apart
sideVars == <<task_history, crawlVars, frontVars, navVars, extractVars>>

\* ------------------------------------------------------------- helpers

\* get_task_status: self.active_tasks.get(task_id)
get_task_status(i) == active[i]

\* self.task_history[-100:]
HistoryKeep == 100
Recent(h) == IF Len(h) <= HistoryKeep THEN h ELSE SubSeq(h, Len(h) - HistoryKeep + 1, Len(h))

\* what json.dump writes: under 'active_tasks' each key with its task's status,
\* under 'task_history' the last HistoryKeep entries of self.task_history
Dump(act, st) ==
    [active_tasks |-> [i \in Ids |-> IF act[i] = NoTask THEN None ELSE st[act[i]]],
     task_history |-> Recent(task_history)]

\* the document before anything was written
NoFile == [active_tasks |-> [i \in Ids |-> None], task_history |-> <<>>]

\* _save_task_history, run against the table act and the task states st
_save_task_history(act, st) == file' = Dump(act, st)

\* no container yet
NoListing == [present |-> {}, title |-> "", price |-> <<>>]

Init ==
    /\ now = 0
    /\ pc = [t \in Tasks |-> "idle"]
    /\ ttype = [t \in Tasks |-> None]
    /\ stype = [t \in Tasks |-> None]
    /\ tid = [t \in Tasks |-> <<None, 0>>]
    /\ status = [t \in Tasks |-> None]
    /\ error = [t \in Tasks |-> ""]
    /\ tb = [t \in Tasks |-> ""]
    /\ queue = <<>>
    /\ active = [i \in Ids |-> NoTask]
    /\ jobs = {}
    /\ file = NoFile
    /\ wpc = "idle"
    /\ cur = NoTask
    /\ cpc = "idle"
    /\ ctask = NoTask
    /\ last = [id |-> <<None, 0>>, seen |-> None, res |-> None]
    /\ log = <<>>
    /\ puts = [t \in Tasks |-> 0]
    /\ pred = [t \in Tasks |-> {}]
    /\ okCancelled = {}
    /\ task_history = <<>>
    /\ kpc = "idle"
    /\ max_items = 0
    /\ max_pages = 0
    /\ driver = None
    /\ ddriver = None
    /\ all_items = <<>>
    /\ page = 0
    /\ listings = <<>>
    /\ items = <<>>
    /\ requested = <<>>
    /\ nav = <<>>
    /\ got = <<>>
    /\ loaded = <<>>
    /\ created = 0
    /\ quits = 0
    /\ rpc = [r \in Requests |-> "none"]
    /\ left = [r \in Requests |-> 0]
    /\ progress = [status |-> "idle", error |-> None]
    /\ spc = "new"
    /\ nproxies = 0
    /\ current_proxy_index = 0
    /\ bound = <<>>
    /\ max_retries = 0
    /\ attempt = 0
    /\ challenge = FALSE
    /\ result = "none"
    /\ gets = 0
    /\ fails = 0
    /\ sleeps = <<>>
    /\ cooldowns = 0
    /\ detected = FALSE
    /\ listing = NoListing
    /\ item_data = [kind |-> "new"]
    /\ tag = <<>>
    /\ field = [kind |-> "new"]
    /\ found = 0
    /\ qpc = "idle"
    /\ height = 1
    /\ growth = 0
    /\ last_height = 0
    /\ scrolls = 0
    /\ changes = 0
    /\ stop_event = FALSE
    /\ stpc = "idle"
    /\ after = 0
    /\ clpc = "idle"
    /\ days = 0
    /\ cut = 0
    /\ size0 = 0
    /\ todo = {}
    /\ cleaned = [i \in Ids |-> NoTask]
    /\ clerr = None

\* the clock moves on to the next second in which a submit call reads it
\* (only datetime.now() in a submit call reads the clock)
Tick ==
    /\ \E t \in Tasks : pc[t] = "idle"
    /\ \E t \in Tasks : pc[t] # "idle" /\ tid[t][2] = now
    /\ now' = now + 1
    /\ UNCHANGED <<otherVars, progVars, cpc, ctask, last, histVars>>

\* ------------------------------------------------- submit (caller thread)

\* schedule_scraping_task / schedule_dataset_creation, up to the branch on
\* schedule_type: the task dict is built (id from the clock, status 'scheduled');
\* nothing is shared yet, so this is the first part of SubmitDefer / QueuePut
SubmitBuild(t, fn, st) ==
    /\ pc[t] = "idle"
    /\ \A u \in Tasks : u < t => pc[u] # "idle"
    /\ ttype' = [ttype EXCEPT ![t] = fn]
    /\ stype' = [stype EXCEPT ![t] = st]
    /\ tid' = [tid EXCEPT ![t] = <<fn, now>>]
    /\ status' = [status EXCEPT ![t] = "scheduled"]
    /\ pred' = [pred EXCEPT ![t] = {u \in Tasks : pc[u] = "returned"}]

\* the daily / weekly branch: schedule.every()...do(self._queue_task, task).tag(id)
\* (schedule_dataset_creation has no such branch: nothing is registered)
SubmitDefer(t, fn, st) ==
    /\ st # "immediate"
    /\ SubmitBuild(t, fn, st)
    /\ jobs' = IF fn = "scraping" THEN jobs \cup {t} ELSE jobs
    /\ pc' = [pc EXCEPT ![t] = "register"]
    /\ UNCHANGED <<otherVars, now, error, tb, queue, active, file, wpc, cur,
                   cpc, ctask, last, log, puts, okCancelled>>

\* QueuePut with a last-in-first-out queue
QueuePutLifo(t, fn, st) ==
    /\ st = "immediate"
    /\ SubmitBuild(t, fn, st)
    /\ queue' = <<t>> \o queue
    /\ puts' = [puts EXCEPT ![t] = @ + 1]
    /\ pc' = [pc EXCEPT ![t] = "mark"]
    /\ UNCHANGED <<otherVars, now, error, tb, active, jobs, file, wpc, cur,
                   cpc, ctask, last, log, okCancelled>>

\* the immediate branch: _queue_task, first statement: self.task_queue.put(task)
QueuePut(t, fn, st) ==
    /\ st = "immediate"
    /\ SubmitBuild(t, fn, st)
    /\ queue' = Append(queue, t)
    /\ puts' = [puts EXCEPT ![t] = @ + 1]
    /\ pc' = [pc EXCEPT ![t] = "mark"]
    /\ UNCHANGED <<otherVars, now, error, tb, active, jobs, file, wpc, cur,
                   cpc, ctask, last, log, okCancelled>>

\* QueueMark without the assignment
QueueMarkSkip(t) ==
    /\ pc[t] = "mark"
    /\ _save_task_history(active, status)
    /\ pc' = [pc EXCEPT ![t] = "register"]
    /\ UNCHANGED <<otherVars, now, taskVars, queue, active, jobs,
                   wpc, cur, cpc, ctask, last, histVars>>

\* _queue_task, the rest: task['status'] = 'queued'; self._save_task_history()
QueueMark(t) ==
    /\ pc[t] = "mark"
    /\ status' = [status EXCEPT ![t] = "queued"]
    /\ _save_task_history(active, status')
    /\ pc' = [pc EXCEPT ![t] = "register"]
    /\ UNCHANGED <<otherVars, now, ttype, stype, tid, error, tb, queue, active, jobs,
                   wpc, cur, cpc, ctask, last, histVars>>

\* self.active_tasks[task_id] = task; self._save_task_history(); return task_id
SubmitRegister(t) ==
    /\ pc[t] = "register"
    /\ active' = [active EXCEPT ![tid[t]] = t]
    /\ _save_task_history(active', status)
    /\ pc' = [pc EXCEPT ![t] = "returned"]
    /\ UNCHANGED <<otherVars, now, taskVars, queue, jobs, wpc, cur,
                   cpc, ctask, last, histVars>>

\* ------------------------------------------------------- worker thread

\* WorkerGet by a worker that does not wait for the task in hand to finish
WorkerGetEager ==
    /\ wpc \in {"idle", "run"}
    /\ queue # <<>>
    /\ cur' = Head(queue)
    /\ queue' = Tail(queue)
    /\ wpc' = "mark"
    /\ UNCHANGED <<otherVars, now, pc, taskVars, active, jobs, file,
                   cpc, ctask, last, histVars>>

\* _process_task_queue: task = self.task_queue.get(timeout=1)
WorkerGet ==
    /\ wpc = "idle"
    /\ queue # <<>>
    /\ cur' = Head(queue)
    /\ queue' = Tail(queue)
    /\ wpc' = "mark"
    /\ UNCHANGED <<otherVars, now, pc, taskVars, active, jobs, file,
                   cpc, ctask, last, histVars>>

\* _execute_task: task['status'] = 'running'; task['started_at'] = ...;
\* self._save_task_history()
WorkerMark ==
    /\ wpc = "mark"
    /\ status' = [status EXCEPT ![cur] = "running"]
    /\ _save_task_history(active, status')
    /\ log' = Append(log, <<"start", cur>>)
    /\ wpc' = "run"
    /\ UNCHANGED <<otherVars, now, pc, ttype, stype, tid, error, tb, queue, active, jobs,
                   cur, cpc, ctask, last, puts, pred, okCancelled>>

\* _run_scraping_task: task['progress'] = ...; self._save_task_history()
\* (the document is rewritten; no status has changed since the last save)
WorkerProgress ==
    /\ wpc = "run"
    /\ ttype[cur] = "scraping"
    /\ _save_task_history(active, status)
    /\ UNCHANGED <<otherVars, now, pc, taskVars, queue, active, jobs, wpc, cur,
                   cpc, ctask, last, histVars>>

\* _execute_task: the body returned; task['status'] = 'completed';
\* finally: self._save_task_history(); back to the loop
WorkerComplete ==
    /\ wpc = "run"
    /\ status' = [status EXCEPT ![cur] = "completed"]
    /\ _save_task_history(active, status')
    /\ log' = Append(log, <<"returned", cur>>)
    /\ wpc' = "idle"
    /\ cur' = NoTask
    /\ UNCHANGED <<otherVars, now, pc, ttype, stype, tid, error, tb, queue, active, jobs,
                   cpc, ctask, last, puts, pred, okCancelled>>

\* WorkerFail that also puts the failed task back on the queue
WorkerFailRetry ==
    /\ wpc = "run"
    /\ status' = [status EXCEPT ![cur] = "failed"]
    /\ error' = [error EXCEPT ![cur] = "str(e)"]
    /\ tb' = [tb EXCEPT ![cur] = "format_exc()"]
    /\ _save_task_history(active, status')
    /\ log' = Append(log, <<"raised", cur>>)
    /\ queue' = Append(queue, cur)
    /\ wpc' = "idle"
    /\ cur' = NoTask
    /\ UNCHANGED <<otherVars, now, pc, ttype, stype, tid, active, jobs,
                   cpc, ctask, last, puts, pred, okCancelled>>

\* _execute_task: the body raised; the except clause records the failure;
\* finally: self._save_task_history(); back to the loop
WorkerFail ==
    /\ wpc = "run"
    /\ status' = [status EXCEPT ![cur] = "failed"]
    /\ error' = [error EXCEPT ![cur] = "str(e)"]
    /\ tb' = [tb EXCEPT ![cur] = "format_exc()"]
    /\ _save_task_history(active, status')
    /\ log' = Append(log, <<"raised", cur>>)
    /\ wpc' = "idle"
    /\ cur' = NoTask
    /\ UNCHANGED <<otherVars, now, pc, ttype, stype, tid, queue, active, jobs,
                   cpc, ctask, last, puts, pred, okCancelled>>

\* ------------------------------------------------- cancel (caller thread)

CancellableOrRunning == {"scheduled", "queued", "running"}

\* cancel_task: task['status'] in ['scheduled', 'queued']
Cancellable == {"scheduled", "queued"}

\* the status cancel_task reads for id i (None: no such key)
Seen(i) == IF active[i] = NoTask THEN None ELSE status[active[i]]

NoCall == [id |-> <<None, 0>>, seen |-> None, res |-> None]

\* CancelCheck that tests only that the id is known
CancelCheckKnown(i) ==
    /\ cpc = "idle"
    /\ IF Seen(i) # None
         THEN /\ ctask' = active[i]
              /\ cpc' = "set"
              /\ last' = [id |-> i, seen |-> Seen(i), res |-> None]
         ELSE /\ ctask' = NoTask
              /\ cpc' = "ret"
              /\ last' = [id |-> i, seen |-> Seen(i), res |-> "False"]
    /\ UNCHANGED <<otherVars, now, progVars, histVars>>

\* cancel_task: the lookup and the status test; on failure go to return False
CancelCheck(i) ==
    /\ cpc = "idle"
    /\ IF Seen(i) \in Cancellable
         THEN /\ ctask' = active[i]
              /\ cpc' = "set"
              /\ last' = [id |-> i, seen |-> Seen(i), res |-> None]
         ELSE /\ ctask' = NoTask
              /\ cpc' = "ret"
              /\ last' = [id |-> i, seen |-> Seen(i), res |-> "False"]
    /\ UNCHANGED <<otherVars, now, progVars, histVars>>

\* CancelSet that waits while the worker executes a task (as it would if the
\* worker held a lock around _execute_task that the save needed)
CancelSetWaits ==
    /\ cpc = "set"
    /\ wpc # "run"
    /\ jobs' = {j \in jobs : tid[j] # last.id}
    /\ status' = [status EXCEPT ![ctask] = "cancelled"]
    /\ _save_task_history(active, status')
    /\ last' = [last EXCEPT !.res = "True"]
    /\ okCancelled' = okCancelled \cup {ctask}
    /\ cpc' = "ret"
    /\ UNCHANGED <<otherVars, now, pc, ttype, stype, tid, error, tb, queue, active,
                   wpc, cur, ctask, log, puts, pred>>

\* cancel_task: schedule.clear(task_id) drops every job tagged with the id;
\* task['status'] = 'cancelled'; self._save_task_history(); then return True
CancelSet ==
    /\ cpc = "set"
    /\ jobs' = {j \in jobs : tid[j] # last.id}
    /\ status' = [status EXCEPT ![ctask] = "cancelled"]
    /\ _save_task_history(active, status')
    /\ last' = [last EXCEPT !.res = "True"]
    /\ okCancelled' = okCancelled \cup {ctask}
    /\ cpc' = "ret"
    /\ UNCHANGED <<otherVars, now, pc, ttype, stype, tid, error, tb, queue, active,
                   wpc, cur, ctask, log, puts, pred>>

\* cancel_task returns last.res to its caller
CancelReturn ==
    /\ cpc = "ret"
    /\ last' = NoCall
    /\ ctask' = NoTask
    /\ cpc' = "idle"
    /\ UNCHANGED <<otherVars, now, progVars, histVars>>

\* ------------------------------------------------------- specification

Submit ==
    \E t \in Tasks :
        \/ \E fn \in TaskTypes, st \in ScheduleTypes : SubmitDefer(t, fn, st)
        \/ \E fn \in TaskTypes, st \in ScheduleTypes : QueuePut(t, fn, st)
        \/ QueueMark(t)
        \/ SubmitRegister(t)

Worker ==
    \/ WorkerGet
    \/ WorkerMark
    \/ WorkerProgress
    \/ WorkerComplete
    \/ WorkerFail

\* the ids a cancel call is made with: every id in the table, and one id that
\* is not in it (cancel_task treats all unknown ids alike)
CancelIds ==
    {i \in Ids : active[i] # NoTask \/ \A j \in Ids : active[j] = NoTask => j[2] >= i[2]}

Cancel ==
    \/ \E i \in CancelIds : CancelCheck(i)
    \/ CancelSet
    \/ CancelReturn

Next == Tick \/ Submit \/ Worker \/ Cancel

Spec == Init /\ [][Next]_vars

\* where the submitting threads and the worker thread stand
flowVars == <<pc, wpc, stpc>>

\* the scheduler with a fair worker whose task executions terminate, and with
\* submit calls that run to their return once begun; stop() is not called
SpecFair ==
    /\ Spec
    /\ WF_flowVars(WorkerGet)
    /\ WF_flowVars(WorkerMark)
    /\ WF_flowVars(WorkerComplete \/ WorkerFail)
    /\ \A t \in Tasks : WF_flowVars(QueueMark(t) \/ SubmitRegister(t))

\* ------------------------------------------------------- process restart

\* The process ends and a new one runs TaskScheduler.__init__ in the same
\* directory: task_queue, active_tasks and task_history start empty, a new
\* worker thread starts, the schedule registry of the new process is empty,
\* and nothing reads task_history.json.  The task dicts of the old process
\* are gone (pc "lost"); their callers still hold the ids.  The file stays.
Restart ==
    /\ \E t \in Tasks : pc[t] # "idle"
    /\ pc' = [t \in Tasks |-> IF pc[t] = "idle" THEN "idle" ELSE "lost"]
    /\ ttype' = [t \in Tasks |-> None]
    /\ stype' = [t \in Tasks |-> None]
    /\ status' = [t \in Tasks |-> None]
    /\ error' = [t \in Tasks |-> ""]
    /\ tb' = [t \in Tasks |-> ""]
    /\ queue' = <<>>
    /\ active' = [i \in Ids |-> NoTask]
    /\ task_history' = <<>>
    /\ jobs' = {}
    /\ wpc' = "idle"
    /\ cur' = NoTask
    /\ cpc' = "idle"
    /\ ctask' = NoTask
    /\ last' = NoCall
    /\ log' = <<>>
    /\ puts' = [t \in Tasks |-> 0]
    /\ pred' = [t \in Tasks |-> {}]
    /\ okCancelled' = {}
    /\ UNCHANGED <<now, tid, file, crawlVars, frontVars, navVars, extractVars, lateVars>>

NextRestart == Next \/ Restart

\* the scheduler with restarts of its process
SpecRestart == Init /\ [][NextRestart]_vars

\* ------------------------------------------- scrape_category (core.py)

\* bounds on the arguments and on what a search page holds
MaxItems == 3
MaxPages == 3
MaxListings == 2

Urls == {"u1", "u2"}
\* a listing container: one extract_item_data accepts (given by the href of
\* its link) or one it returns None for (a required element missing, or an
\* exception inside extract_item_data)
Bad == "bad"
Containers == Urls \cup {Bad}
\* soup.select(...) of a loaded page: the containers, in document order
PageContents == UNION {[1..n -> Containers] : n \in 0..MaxListings}

Take(q, n) == IF n >= Len(q) THEN q ELSE SubSeq(q, 1, n)
\* the loop over listings in scrape_page: the records of the containers
\* extract_item_data returns a record for, in container order
Valid(c) == SelectSeq(c, LAMBDA x : x # Bad)
Alive(d) == IF d = "open" THEN 1 ELSE 0
\* browser sessions alive
SessionsAlive == Alive(driver) + Alive(ddriver)

\* scrape_category is called: all_items = [], page = 1, driver = None
CrawlCall(mi, mp) ==
    /\ kpc = "idle"
    /\ max_items' = mi
    /\ max_pages' = mp
    /\ all_items' = <<>>
    /\ page' = 1
    /\ driver' = None
    /\ kpc' = "start"
    /\ UNCHANGED <<schedVars, frontVars, ddriver, listings, items, requested, nav, got, loaded,
                   created, quits>>

\* driver = setup_selenium_driver(); self.rotate_proxy_and_user_agent(driver):
\* both return
SetupOk ==
    /\ kpc = "start"
    /\ driver' = "open"
    /\ created' = created + 1
    /\ kpc' = "loop"
    /\ UNCHANGED <<schedVars, frontVars, max_items, max_pages, ddriver, all_items, page,
                   listings, items, requested, nav, got, loaded, quits>>

\* setup_selenium_driver() returns and rotate_proxy_and_user_agent raises
\* (execute_cdp_cmd fails): except Exception, then finally
SetupRotateRaises ==
    /\ kpc = "start"
    /\ driver' = "open"
    /\ created' = created + 1
    /\ kpc' = "finally"
    /\ UNCHANGED <<schedVars, frontVars, max_items, max_pages, ddriver, all_items, page,
                   listings, items, requested, nav, got, loaded, quits>>

\* setup_selenium_driver() raises: driver stays None; except, then finally
SetupRaises ==
    /\ kpc = "start"
    /\ kpc' = "finally"
    /\ UNCHANGED <<schedVars, frontVars, max_items, max_pages, driver, ddriver, all_items,
                   page, listings, items, requested, nav, got, loaded, created, quits>>

\* while len(all_items) < max_items and page <= max_pages
LoopCondition == Len(all_items) < max_items /\ page <= max_pages

\* the loop test fails: on to finally
LoopExit ==
    /\ kpc = "loop"
    /\ ~LoopCondition
    /\ kpc' = "finally"
    /\ UNCHANGED <<schedVars, frontVars, max_items, max_pages, driver, ddriver, all_items,
                   page, listings, items, requested, nav, got, loaded, created, quits>>

\* the loop test holds: get_search_url(category, subcategory, page) and
\* scrape_page up to "items = []": the page is loaded and holds containers c
PageLoaded(c) ==
    /\ kpc = "loop"
    /\ LoopCondition
    /\ requested' = Append(requested, page)
    /\ nav' = Append(nav, "ok")
    /\ loaded' = Append(loaded, c)
    /\ listings' = c
    /\ items' = <<>>
    /\ kpc' = "extract"
    /\ UNCHANGED <<schedVars, frontVars, max_items, max_pages, driver, ddriver, all_items,
                   page, got, created, quits>>

\* PageFails that gives up the records collected so far
PageFailsDrops ==
    /\ kpc = "loop"
    /\ LoopCondition
    /\ requested' = Append(requested, page)
    /\ nav' = Append(nav, "failed")
    /\ loaded' = Append(loaded, <<>>)
    /\ listings' = <<>>
    /\ items' = <<>>
    /\ all_items' = <<>>
    /\ kpc' = "extract"
    /\ UNCHANGED <<schedVars, frontVars, max_items, max_pages, driver, ddriver,
                   page, got, created, quits>>

\* the loop test holds and scrape_page returns [] without reading the page:
\* safe_get_url returns False, or an exception is caught (lines 197-199, 234-236)
PageFails ==
    /\ kpc = "loop"
    /\ LoopCondition
    /\ requested' = Append(requested, page)
    /\ nav' = Append(nav, "failed")
    /\ loaded' = Append(loaded, <<>>)
    /\ listings' = <<>>
    /\ items' = <<>>
    /\ kpc' = "extract"
    /\ UNCHANGED <<schedVars, frontVars, max_items, max_pages, driver, ddriver, all_items,
                   page, got, created, quits>>

\* ExtractSkip that gives up the page
ExtractSkipAborts ==
    /\ kpc = "extract"
    /\ listings # <<>>
    /\ Head(listings) = Bad
    /\ listings' = <<>>
    /\ items' = <<>>
    /\ UNCHANGED <<schedVars, frontVars, kpc, max_items, max_pages, driver, ddriver,
                   all_items, page, requested, nav, got, loaded, created, quits>>

\* extract_item_data returns None for the next container
ExtractSkip ==
    /\ kpc = "extract"
    /\ listings # <<>>
    /\ Head(listings) = Bad
    /\ listings' = Tail(listings)
    /\ UNCHANGED <<schedVars, frontVars, kpc, max_items, max_pages, driver, ddriver,
                   all_items, page, items, requested, nav, got, loaded, created, quits>>

\* extract_item_data finds the required elements of the next container and
\* calls get_product_details(url): driver = setup_selenium_driver() returns
DetailsOpen ==
    /\ kpc = "extract"
    /\ listings # <<>>
    /\ Head(listings) # Bad
    /\ ddriver' = "open"
    /\ created' = created + 1
    /\ kpc' = "details"
    /\ UNCHANGED <<schedVars, frontVars, max_items, max_pages, driver, all_items, page,
                   listings, items, requested, nav, got, loaded, quits>>

\* get_product_details: setup_selenium_driver() raises; the except clause logs,
\* finally finds driver None; the record is returned without details
DetailsNoDriver ==
    /\ kpc = "extract"
    /\ listings # <<>>
    /\ Head(listings) # Bad
    /\ items' = Append(items, Head(listings))
    /\ listings' = Tail(listings)
    /\ UNCHANGED <<schedVars, frontVars, kpc, max_items, max_pages, driver, ddriver,
                   all_items, page, requested, nav, got, loaded, created, quits>>

\* get_product_details: the page is read (or an exception is caught);
\* finally: driver.quit(); the record is returned and appended to items
DetailsClose ==
    /\ kpc = "details"
    /\ ddriver' = None
    /\ quits' = quits + 1
    /\ items' = Append(items, Head(listings))
    /\ listings' = Tail(listings)
    /\ kpc' = "extract"
    /\ UNCHANGED <<schedVars, frontVars, max_items, max_pages, driver, all_items, page,
                   requested, nav, got, loaded, created>>

\* PageReturn that puts the records of the page before those of earlier pages
PageReturnPrepends ==
    /\ kpc = "extract"
    /\ listings = <<>>
    /\ got' = Append(got, items)
    /\ IF items = <<>>
         THEN kpc' = "finally" /\ UNCHANGED <<all_items, page>>
         ELSE /\ all_items' = Take(items, max_items - Len(all_items)) \o all_items
              /\ page' = page + 1
              /\ kpc' = "loop"
    /\ UNCHANGED <<schedVars, frontVars, max_items, max_pages, driver, ddriver, listings,
                   items, requested, nav, loaded, created, quits>>

\* PageReturn that appends every record of the page
PageReturnNoBudget ==
    /\ kpc = "extract"
    /\ listings = <<>>
    /\ got' = Append(got, items)
    /\ IF items = <<>>
         THEN kpc' = "finally" /\ UNCHANGED <<all_items, page>>
         ELSE /\ all_items' = all_items \o items
              /\ page' = page + 1
              /\ kpc' = "loop"
    /\ UNCHANGED <<schedVars, frontVars, max_items, max_pages, driver, ddriver, listings,
                   items, requested, nav, loaded, created, quits>>

\* PageReturn that goes on to the next page after an empty one
PageReturnNoBreak ==
    /\ kpc = "extract"
    /\ listings = <<>>
    /\ got' = Append(got, items)
    /\ all_items' = all_items \o Take(items, max_items - Len(all_items))
    /\ page' = page + 1
    /\ kpc' = "loop"
    /\ UNCHANGED <<schedVars, frontVars, max_items, max_pages, driver, ddriver, listings,
                   items, requested, nav, loaded, created, quits>>

\* scrape_page returns items; "if not items: break"; else the for loop appends
\* the items while len(all_items) < max_items; page += 1; back to the loop test
PageReturn ==
    /\ kpc = "extract"
    /\ listings = <<>>
    /\ got' = Append(got, items)
    /\ IF items = <<>>
         THEN kpc' = "finally" /\ UNCHANGED <<all_items, page>>
         ELSE /\ all_items' = all_items \o Take(items, max_items - Len(all_items))
              /\ page' = page + 1
              /\ kpc' = "loop"
    /\ UNCHANGED <<schedVars, frontVars, max_items, max_pages, driver, ddriver, listings,
                   items, requested, nav, loaded, created, quits>>

\* CrawlFinally without the driver.quit()
CrawlFinallyNoQuit ==
    /\ kpc = "finally"
    /\ kpc' = "done"
    /\ UNCHANGED <<schedVars, frontVars, max_items, max_pages, driver, ddriver, all_items,
                   page, listings, items, requested, nav, got, loaded, created, quits>>

\* finally: if driver: driver.quit(); then all_items is returned
CrawlFinally ==
    /\ kpc = "finally"
    /\ IF driver = "open"
         THEN driver' = "closed" /\ quits' = quits + 1
         ELSE UNCHANGED <<driver, quits>>
    /\ kpc' = "done"
    /\ UNCHANGED <<schedVars, frontVars, max_items, max_pages, ddriver, all_items, page,
                   listings, items, requested, nav, got, loaded, created>>

NextCrawl ==
    \/ \E mi \in 1..MaxItems, mp \in 1..MaxPages : CrawlCall(mi, mp)
    \/ SetupOk
    \/ SetupRotateRaises
    \/ SetupRaises
    \/ LoopExit
    \/ \E c \in PageContents : PageLoaded(c)
    \/ PageFails
    \/ ExtractSkip
    \/ DetailsOpen
    \/ DetailsNoDriver
    \/ DetailsClose
    \/ PageReturn
    \/ CrawlFinally

\* one call of scrape_category, against every sequence of pages
SpecCrawl == Init /\ [][NextCrawl]_vars

\* the same, with the calling thread never stopping for good before the return
\* (every call scrape_category makes returns or raises)
SpecCrawlFair == SpecCrawl /\ WF_vars(NextCrawl)

\* ------------------------------------------------ the front end (app.py)

\* start_scraping: the request has no JSON body, no or malformed
\* selected_classes: a 400 response, no thread
StartRejected(r) ==
    /\ rpc[r] = "none"
    /\ \A q \in Requests : q < r => rpc[q] # "none"
    /\ rpc' = [rpc EXCEPT ![r] = "rejected"]
    /\ UNCHANGED <<schedVars, crawlVars, left, progress>>

\* start_scraping: selected_classes is valid and selects n pairs;
\* threading.Thread(target=run_scraper, ...).start(); {'status': 'started'}
StartScraping(r, n) ==
    /\ rpc[r] = "none"
    /\ \A q \in Requests : q < r => rpc[q] # "none"
    /\ rpc' = [rpc EXCEPT ![r] = "init"]
    /\ left' = [left EXCEPT ![r] = n]
    /\ UNCHANGED <<schedVars, crawlVars, progress>>

\* run_scraper: with progress_lock: scraping_progress.update(status 'running',
\* error None, ...); the scraper and the processor are built
RunInit(r) ==
    /\ rpc[r] = "init"
    /\ progress' = [status |-> "running", error |-> None]
    /\ rpc' = [rpc EXCEPT ![r] = "loop"]
    /\ UNCHANGED <<schedVars, crawlVars, left>>

\* run_scraper: the next pair: scraping_progress is updated under the lock
\* (status is left alone) and scraper.scrape_category(...) is entered
RunCrawl(r) ==
    /\ rpc[r] = "loop"
    /\ left[r] > 0
    /\ rpc' = [rpc EXCEPT ![r] = "crawl"]
    /\ UNCHANGED <<schedVars, crawlVars, left, progress>>

\* run_scraper: scrape_category and processor.create_dataset return
RunCrawlDone(r) ==
    /\ rpc[r] = "crawl"
    /\ left' = [left EXCEPT ![r] = @ - 1]
    /\ rpc' = [rpc EXCEPT ![r] = "loop"]
    /\ UNCHANGED <<schedVars, crawlVars, progress>>

\* run_scraper: scrape_category or processor.create_dataset raises
RunCrawlRaises(r) ==
    /\ rpc[r] = "crawl"
    /\ rpc' = [rpc EXCEPT ![r] = "except"]
    /\ UNCHANGED <<schedVars, crawlVars, left, progress>>

\* run_scraper: every pair is done, the zip files are written;
\* with progress_lock: status 'completed'
RunCompleted(r) ==
    /\ rpc[r] = "loop"
    /\ left[r] = 0
    /\ progress' = [progress EXCEPT !.status = "completed"]
    /\ rpc' = [rpc EXCEPT ![r] = "completed"]
    /\ UNCHANGED <<schedVars, crawlVars, left>>

\* run_scraper: writing the zip files raises (a training file is missing)
RunZipRaises(r) ==
    /\ rpc[r] = "loop"
    /\ left[r] = 0
    /\ rpc' = [rpc EXCEPT ![r] = "except"]
    /\ UNCHANGED <<schedVars, crawlVars, left, progress>>

\* run_scraper: except Exception: with progress_lock: status 'error', error str(e)
RunError(r) ==
    /\ rpc[r] = "except"
    /\ progress' = [status |-> "error", error |-> "str(e)"]
    /\ rpc' = [rpc EXCEPT ![r] = "error"]
    /\ UNCHANGED <<schedVars, crawlVars, left>>

\* the run_scraper threads that have been started and have not ended
ActiveRuns == {r \in Requests : rpc[r] \in {"init", "loop", "crawl", "except"}}

NextFront ==
    \E r \in Requests :
        \/ StartRejected(r)
        \/ \E n \in 0..MaxPairs : StartScraping(r, n)
        \/ RunInit(r)
        \/ RunCrawl(r)
        \/ RunCrawlDone(r)
        \/ RunCrawlRaises(r)
        \/ RunCompleted(r)
        \/ RunZipRaises(r)
        \/ RunError(r)

\* the front end under any sequence of start_scraping requests
SpecFront == Init /\ [][NextFront]_vars

\* --------------------------------------- SeleniumManager (selenium_utils.py)

\* bounds: the max_retries argument, the proxy pool, the sessions created
MaxRetries == 3
MaxProxies == 2
MaxSessions == 3
\* the largest base delay, in seconds, tried for the backoff law
MaxBase == 5

\* time.sleep(random.uniform(2, 5)) in the except clause: whole seconds
BackoffLow == 2
BackoffHigh == 5
BackoffDelays == BackoffLow..BackoffHigh

\* a session created with an empty pool has no --proxy-server argument
NoProxy == -1

\* the caller is between two calls of the manager
Between == spc \in {"idle", "returned", "raised"}

\* _get_next_proxy: the index after the call (unchanged with an empty pool)
_get_next_proxy ==
    IF nproxies = 0 THEN current_proxy_index
    ELSE (current_proxy_index + 1) % nproxies

\* SeleniumManager(config, proxy_list) with a pool of n proxies
ManagerInit(n) ==
    /\ spc = "new"
    /\ nproxies' = n
    /\ current_proxy_index' = 0
    /\ spc' = "idle"
    /\ UNCHANGED <<baseVars, extractVars, bound, max_retries, attempt, challenge, result,
                   gets, fails, sleeps, cooldowns, detected>>

\* create_driver returns: _configure_chrome_options takes the next proxy when
\* the pool is not empty, webdriver.Chrome starts the session
CreateDriver ==
    /\ Between
    /\ Len(bound) < MaxSessions
    /\ bound' = Append(bound, IF nproxies = 0 THEN NoProxy ELSE current_proxy_index)
    /\ current_proxy_index' = _get_next_proxy
    /\ UNCHANGED <<baseVars, extractVars, spc, nproxies, max_retries, attempt, challenge,
                   result, gets, fails, sleeps, cooldowns, detected>>

\* create_driver raises: the proxy was taken, no session was created
CreateDriverRaises ==
    /\ Between
    /\ Len(bound) < MaxSessions
    /\ current_proxy_index' = _get_next_proxy
    /\ UNCHANGED <<baseVars, extractVars, spc, nproxies, bound, max_retries, attempt,
                   challenge, result, gets, fails, sleeps, cooldowns, detected>>

\* safe_get(driver, url, mr) is called with a session the manager created
SafeGetCall(mr) ==
    /\ Between
    /\ bound # <<>>
    /\ max_retries' = mr
    /\ attempt' = 0
    /\ result' = "none"
    /\ gets' = 0
    /\ fails' = 0
    /\ sleeps' = <<>>
    /\ cooldowns' = 0
    /\ detected' = FALSE
    /\ spc' = "get"
    /\ UNCHANGED <<baseVars, extractVars, nproxies, current_proxy_index, bound, challenge>>

\* driver.get(url) or the wait for the body raises
GetRaises ==
    /\ spc = "get"
    /\ gets' = gets + 1
    /\ fails' = fails + 1
    /\ spc' = "except"
    /\ UNCHANGED <<baseVars, extractVars, nproxies, current_proxy_index, bound, max_retries,
                   attempt, challenge, result, sleeps, cooldowns, detected>>

\* the page loads; _detect_antibot returns ch
GetLoads(ch) ==
    /\ spc = "get"
    /\ gets' = gets + 1
    /\ challenge' = ch
    /\ detected' = (detected \/ ch)
    /\ spc' = IF ch THEN "antibot" ELSE "save"
    /\ UNCHANGED <<baseVars, extractVars, nproxies, current_proxy_index, bound, max_retries,
                   attempt, result, fails, sleeps, cooldowns>>

\* _handle_antibot: time.sleep(random.uniform(10, 20)); after it the page
\* shows the challenge or not (still); then _rotate_identity
HandleAntibot(still) ==
    /\ spc = "antibot"
    /\ cooldowns' = cooldowns + 1
    /\ challenge' = still
    /\ spc' = "rotate_try"
    /\ UNCHANGED <<baseVars, extractVars, nproxies, current_proxy_index, bound, max_retries,
                   attempt, result, gets, fails, sleeps, detected>>

\* _rotate_identity returns: inside the try block safe_get goes on to
\* _save_cookies; inside the except clause the for loop takes the next attempt
RotateIdentity ==
    /\ spc \in {"rotate_try", "rotate_except"}
    /\ current_proxy_index' = _get_next_proxy
    /\ IF spc = "rotate_try"
         THEN spc' = "save" /\ UNCHANGED attempt
         ELSE spc' = "get" /\ attempt' = attempt + 1
    /\ UNCHANGED <<baseVars, extractVars, nproxies, bound, max_retries, challenge, result,
                   gets, fails, sleeps, cooldowns, detected>>

\* _rotate_identity raises in execute_cdp_cmd, after _get_next_proxy: inside
\* the try block the except clause catches it; inside the except clause the
\* exception leaves safe_get
RotateIdentityRaises ==
    /\ spc \in {"rotate_try", "rotate_except"}
    /\ current_proxy_index' = _get_next_proxy
    /\ IF spc = "rotate_try"
         THEN spc' = "except" /\ fails' = fails + 1 /\ UNCHANGED result
         ELSE spc' = "raised" /\ result' = "raised" /\ UNCHANGED fails
    /\ UNCHANGED <<baseVars, extractVars, nproxies, bound, max_retries, attempt, challenge,
                   gets, sleeps, cooldowns, detected>>

\* _save_cookies returns: return True
SaveCookies ==
    /\ spc = "save"
    /\ result' = "true"
    /\ spc' = "returned"
    /\ UNCHANGED <<baseVars, extractVars, nproxies, current_proxy_index, bound, max_retries,
                   attempt, challenge, gets, fails, sleeps, cooldowns, detected>>

\* _save_cookies raises (get_cookies, or the cookie file cannot be written)
SaveCookiesRaises ==
    /\ spc = "save"
    /\ fails' = fails + 1
    /\ spc' = "except"
    /\ UNCHANGED <<baseVars, extractVars, nproxies, current_proxy_index, bound, max_retries,
                   attempt, challenge, result, gets, sleeps, cooldowns, detected>>

\* ExceptRetry without the sleep
ExceptRetryNoSleep(d) ==
    /\ spc = "except"
    /\ attempt < max_retries - 1
    /\ spc' = "rotate_except"
    /\ UNCHANGED <<baseVars, extractVars, nproxies, current_proxy_index, bound, max_retries,
                   attempt, challenge, result, gets, fails, sleeps, cooldowns, detected>>

\* except clause, attempt < max_retries - 1: sleep d seconds, then
\* _rotate_identity
ExceptRetry(d) ==
    /\ spc = "except"
    /\ attempt < max_retries - 1
    /\ sleeps' = Append(sleeps, d)
    /\ spc' = "rotate_except"
    /\ UNCHANGED <<baseVars, extractVars, nproxies, current_proxy_index, bound, max_retries,
                   attempt, challenge, result, gets, fails, cooldowns, detected>>

\* except clause of the last attempt: the loop ends, return False
ExceptLast ==
    /\ spc = "except"
    /\ attempt >= max_retries - 1
    /\ result' = "false"
    /\ spc' = "returned"
    /\ UNCHANGED <<baseVars, extractVars, nproxies, current_proxy_index, bound, max_retries,
                   attempt, challenge, gets, fails, sleeps, cooldowns, detected>>

NextNav ==
    \/ \E n \in 0..MaxProxies : ManagerInit(n)
    \/ CreateDriver
    \/ CreateDriverRaises
    \/ \E mr \in 1..MaxRetries : SafeGetCall(mr)
    \/ GetRaises
    \/ \E ch \in BOOLEAN : GetLoads(ch)
    \/ \E still \in BOOLEAN : HandleAntibot(still)
    \/ RotateIdentity
    \/ RotateIdentityRaises
    \/ SaveCookies
    \/ SaveCookiesRaises
    \/ \E d \in BackoffDelays : ExceptRetry(d)
    \/ ExceptLast

\* one SeleniumManager, used by one thread
SpecNav == Init /\ [][NextNav]_vars

\* ------------------------------------------- extract_item_data (core.py)

\* bound on the length of a price text
MaxText == 3

\* the characters of a price text: a currency sign, digits, point and comma
Chars == {"$", "0", "1", ".", ","}
Texts == UNION {[1..n -> Chars] : n \in 0..MaxText}
\* get_text(strip=True) of the title element
Titles == {"", "ring"}
\* the elements extract_item_data requires
Elems == {"title", "price", "link", "img"}
\* the href of an element 'a[href*="itm"]', the src of 'img[src*="i.ebayimg.com"]'
Href == "https://www.ebay.com/itm/1"
Src == "https://i.ebayimg.com/1.jpg"

\* a listing container: the required elements it has, and the texts of its
\* title and price elements
Listings ==
    {l \in [present : SUBSET Elems, title : Titles, price : Texts] :
        /\ "title" \notin l.present => l.title = ""
        /\ "price" \notin l.present => l.price = <<>>}

\* a character the class [\d,.] matches
IsPriceChar(c) == c \in {"0", "1", ".", ","}
HasMatch(t) == \E i \in 1..Len(t) : IsPriceChar(t[i])
\* re.search(r'[\d,.]+', t).group(0): the first run, as long as it goes
Matched(t) ==
    LET lo == CHOOSE i \in 1..Len(t) :
                  IsPriceChar(t[i]) /\ \A j \in 1..(i - 1) : ~IsPriceChar(t[j])
        hi == CHOOSE j \in lo..Len(t) :
                  /\ \A k \in lo..j : IsPriceChar(t[k])
                  /\ j = Len(t) \/ ~IsPriceChar(t[j + 1])
    IN  SubSeq(t, lo, hi)
\* .replace(',', '')
Cleaned(m) == SelectSeq(m, LAMBDA c : c # ",")

RECURSIVE Pow10(_)
Pow10(n) == IF n = 0 THEN 1 ELSE 10 * Pow10(n - 1)
RECURSIVE IntVal(_)
\* the number a string of digits denotes
IntVal(ds) ==
    IF ds = <<>> THEN 0
    ELSE 10 * IntVal(SubSeq(ds, 1, Len(ds) - 1)) + (IF ds[Len(ds)] = "1" THEN 1 ELSE 0)
Dots(s) == {i \in 1..Len(s) : s[i] = "."}
\* float(s) accepts s (digits and points only): one point at most, one digit
\* at least
IsFloat(s) == Cardinality(Dots(s)) <= 1 /\ Len(s) > Cardinality(Dots(s))
\* float(s), in units of 10^-MaxText
FloatOf(s) ==
    LET dot == IF Dots(s) = {} THEN Len(s) + 1 ELSE CHOOSE i \in Dots(s) : TRUE
        frac == SubSeq(s, dot + 1, Len(s))
    IN  IntVal(SubSeq(s, 1, dot - 1)) * Pow10(MaxText)
          + IntVal(frac) * Pow10(MaxText - Len(frac))

\* extract_price: None, a float, or the ValueError of float()
extract_price(t) ==
    IF t = <<>> \/ ~HasMatch(t) THEN [kind |-> "none"]
    ELSE IF IsFloat(Cleaned(Matched(t)))
           THEN [kind |-> "float", value |-> FloatOf(Cleaned(Matched(t)))]
           ELSE [kind |-> "raise"]

\* extract_item_data: None when a required element is missing or an exception
\* is caught, else the record
extract_item_data(l) ==
    IF ~(Elems \subseteq l.present) \/ extract_price(l.price).kind = "raise"
      THEN [kind |-> "none"]
      ELSE [kind |-> "data", title |-> l.title, price |-> extract_price(l.price),
            url |-> Href, image_url |-> Src]

\* scrape_page passes the container l to extract_item_data
ExtractItemData(l) ==
    /\ item_data = [kind |-> "new"]
    /\ listing' = l
    /\ item_data' = extract_item_data(l)
    /\ UNCHANGED <<baseVars, navVars>>

NextExtract == \E l \in Listings : ExtractItemData(l)

\* extract_item_data applied to every listing container within the bounds
SpecExtract == Init /\ [][NextExtract]_vars

\* ------------------------------- selector chains (product_collector.py)

\* bound on the number of selectors of a chain
MaxChain == 4

\* get_text(strip=True) of an element a selector finds
ElemTexts == {"", "a", "b"}
\* a container, seen through a chain of n selectors: for each selector what
\* elem.select_one(selector) returns, None or an element with this text
Tags == UNION {[1..n -> ElemTexts \cup {None}] : n \in 1..MaxChain}

RECURSIVE SelectorLoop(_, _)
\* for selector in selectors, from the i-th on: the first selector whose
\* select_one finds an element (0 when the loop ends without one)
SelectorLoop(elem, i) ==
    IF i > Len(elem) THEN 0
    ELSE IF elem[i] # None THEN i ELSE SelectorLoop(elem, i + 1)

\* the last selector of the chain that finds an element (0: none does)
LastMatch(elem) ==
    IF \A i \in 1..Len(elem) : elem[i] = None THEN 0
    ELSE CHOOSE i \in 1..Len(elem) :
             elem[i] # None /\ \A j \in (i + 1)..Len(elem) : elem[j] = None

\* _extract_with_selectors that lets a later selector override an earlier one
ExtractWithSelectorsLast(elem) ==
    IF LastMatch(elem) = 0 THEN [kind |-> "none"]
    ELSE [kind |-> "text", text |-> elem[LastMatch(elem)]]

\* _extract_with_selectors: the text of the first element found, or None
_extract_with_selectors(elem) ==
    IF SelectorLoop(elem, 1) = 0 THEN [kind |-> "none"]
    ELSE [kind |-> "text", text |-> elem[SelectorLoop(elem, 1)]]

\* _find_element: the first element found (given by its selector), or None
_find_element(elem) == SelectorLoop(elem, 1)

\* both functions are called on the container elem
ExtractWithSelectors(elem) ==
    /\ field = [kind |-> "new"]
    /\ tag' = elem
    /\ field' = _extract_with_selectors(elem)
    /\ found' = _find_element(elem)
    /\ UNCHANGED <<now, progVars, cpc, ctask, last, histVars, sideVars, scrollVars,
                   stopVars, cleanVars>>

NextSelect == \E elem \in Tags : ExtractWithSelectors(elem)

\* the two functions applied to every container within the bounds
SpecSelect == Init /\ [][NextSelect]_vars

\* ------------------------------------------- scroll_page (selenium_utils.py)

\* bounds: the times a page grows, and by how much at a time
MaxGrowth == 3
MaxStep == 2

\* scroll_page is called on a page that will grow g more times:
\* last_height = the first reading of document.body.scrollHeight
ScrollCall(g) ==
    /\ qpc = "idle"
    /\ growth' = g
    /\ last_height' = height
    /\ scrolls' = 0
    /\ changes' = 0
    /\ qpc' = "scroll"
    /\ UNCHANGED <<now, progVars, cpc, ctask, last, histVars, sideVars, selectVars,
                   stopVars, cleanVars, height>>

\* ScrollDown that scrolls twice before it reads the height
ScrollDownTwice(d) ==
    /\ qpc = "scroll"
    /\ scrolls' = scrolls + 2
    /\ IF d = 0
         THEN UNCHANGED <<height, growth>>
         ELSE growth > 0 /\ height' = height + d /\ growth' = growth - 1
    /\ qpc' = "read"
    /\ UNCHANGED <<now, progVars, cpc, ctask, last, histVars, sideVars, selectVars,
                   stopVars, cleanVars, last_height, changes>>

\* window.scrollTo(0, document.body.scrollHeight); time.sleep(scroll_pause):
\* during the pause the page grows by d (d = 0: it does not)
ScrollDown(d) ==
    /\ qpc = "scroll"
    /\ scrolls' = scrolls + 1
    /\ IF d = 0
         THEN UNCHANGED <<height, growth>>
         ELSE growth > 0 /\ height' = height + d /\ growth' = growth - 1
    /\ qpc' = "read"
    /\ UNCHANGED <<now, progVars, cpc, ctask, last, histVars, sideVars, selectVars,
                   stopVars, cleanVars, last_height, changes>>

\* new_height == last_height: break
ReadEqual ==
    /\ qpc = "read"
    /\ height = last_height
    /\ qpc' = "done"
    /\ UNCHANGED <<now, progVars, cpc, ctask, last, histVars, sideVars, selectVars,
                   stopVars, cleanVars, height, growth, last_height, scrolls, changes>>

\* new_height differs: last_height = new_height, and round the loop again
ReadChanged ==
    /\ qpc = "read"
    /\ height # last_height
    /\ last_height' = height
    /\ changes' = changes + 1
    /\ qpc' = "scroll"
    /\ UNCHANGED <<now, progVars, cpc, ctask, last, histVars, sideVars, selectVars,
                   stopVars, cleanVars, height, growth, scrolls>>

\* driver.execute_script raises: scroll_page has no try, the exception leaves it
ScriptRaises ==
    /\ qpc \in {"scroll", "read"}
    /\ qpc' = "raised"
    /\ UNCHANGED <<now, progVars, cpc, ctask, last, histVars, sideVars, selectVars,
                   stopVars, cleanVars, height, growth, last_height, scrolls, changes>>

NextScroll ==
    \/ \E g \in 0..MaxGrowth : ScrollCall(g)
    \/ \E d \in 0..MaxStep : ScrollDown(d)
    \/ ReadEqual
    \/ ReadChanged
    \/ ScriptRaises

\* one call of scroll_page, on every page that grows at most MaxGrowth times
SpecScroll == Init /\ [][NextScroll]_vars

\* the same, with the calling thread never stopping for good inside the call
\* (execute_script and time.sleep return or raise)
SpecScrollFair == SpecScroll /\ WF_vars(NextScroll)

\* ------------------------------------------------ stop() (scheduler.py)

\* WorkerTest by a worker that never looks at the stop event
WorkerTestDeaf ==
    /\ wpc = "idle"
    /\ wpc' = "wait"
    /\ UNCHANGED <<otherVars, now, pc, taskVars, queue, active, jobs, file, cur,
                   cpc, ctask, last, histVars>>

\* _process_task_queue: while not self.stop_event.is_set(), found unset
WorkerTest ==
    /\ wpc = "idle"
    /\ ~stop_event
    /\ wpc' = "wait"
    /\ UNCHANGED <<otherVars, now, pc, taskVars, queue, active, jobs, file, cur,
                   cpc, ctask, last, histVars>>

\* the loop test found the event set: the loop and the thread end
WorkerExit ==
    /\ wpc = "idle"
    /\ stop_event
    /\ wpc' = "exited"
    /\ UNCHANGED <<otherVars, now, pc, taskVars, queue, active, jobs, file, cur,
                   cpc, ctask, last, histVars>>

\* task = self.task_queue.get(timeout=1) returns a task ('after' counts the
\* tasks taken while the stop event is set)
WorkerTake ==
    /\ wpc = "wait"
    /\ queue # <<>>
    /\ cur' = Head(queue)
    /\ queue' = Tail(queue)
    /\ after' = IF stop_event THEN after + 1 ELSE after
    /\ wpc' = "mark"
    /\ UNCHANGED <<sideVars, selectVars, scrollVars, cleanVars, stop_event, stpc,
                   now, pc, taskVars, active, jobs, file, cpc, ctask, last, histVars>>

\* task_queue.get times out: except queue.Empty: continue
WorkerTimeout ==
    /\ wpc = "wait"
    /\ queue = <<>>
    /\ wpc' = "idle"
    /\ UNCHANGED <<otherVars, now, pc, taskVars, queue, active, jobs, file, cur,
                   cpc, ctask, last, histVars>>

\* stop(): self.stop_event.set()
StopSet ==
    /\ stpc = "idle"
    /\ stop_event' = TRUE
    /\ stpc' = "clear"
    /\ UNCHANGED <<sideVars, selectVars, scrollVars, cleanVars, after,
                   now, progVars, cpc, ctask, last, histVars>>

\* stop(): schedule.clear() drops every registered job
StopClear ==
    /\ stpc = "clear"
    /\ jobs' = {}
    /\ stpc' = "join"
    /\ UNCHANGED <<sideVars, selectVars, scrollVars, cleanVars, stop_event, after,
                   now, pc, taskVars, queue, active, file, wpc, cur,
                   cpc, ctask, last, histVars>>

\* stop(): self.worker_thread.join() returns once the worker thread has ended
StopJoin ==
    /\ stpc = "join"
    /\ wpc = "exited"
    /\ stpc' = "returned"
    /\ UNCHANGED <<sideVars, selectVars, scrollVars, cleanVars, stop_event, after,
                   now, progVars, cpc, ctask, last, histVars>>

WorkerLoop ==
    \/ WorkerTest
    \/ WorkerExit
    \/ WorkerTake
    \/ WorkerTimeout
    \/ WorkerMark
    \/ WorkerProgress
    \/ WorkerComplete
    \/ WorkerFail

Stop == StopSet \/ StopClear \/ StopJoin

NextStop == Tick \/ Submit \/ WorkerLoop \/ Cancel \/ Stop

\* the scheduler with the worker's loop test and one call of stop()
SpecStop == Init /\ [][NextStop]_vars

\* the same with a fair worker whose task executions terminate and a stop()
\* call that runs on once begun
SpecStopFair ==
    /\ SpecStop
    /\ WF_flowVars(WorkerTest \/ WorkerExit)
    /\ WF_flowVars(WorkerTake \/ WorkerTimeout)
    /\ WF_flowVars(WorkerMark)
    /\ WF_flowVars(WorkerComplete \/ WorkerFail)
    /\ WF_flowVars(StopClear \/ StopJoin)

\* --------------------------------------- cleanup_old_tasks (scheduler.py)

\* def cleanup_old_tasks(self, days: int = 7)
DefaultDays == 7

\* the cutoffs a call is made with: days = 0 puts the cutoff at the moment of
\* the call, after every completion so far; the default puts it before all
DaysArgs == {0, DefaultDays}

\* the keys of a task table
Keys(act) == {i \in Ids : act[i] # NoTask}

\* 'completed_at' in task: only the success path of _execute_task sets it
HasCompletedAt(t) == \E k \in 1..Len(log) : log[k] = <<"returned", t>>

\* completed_at > cutoff_date: the task completed after the call began, or
\* the cutoff lies days back, before every completion of the run
Newer(t) == days > 0 \/ \E k \in (cut + 1)..Len(log) : log[k] = <<"returned", t>>

\* the call ends (return or exception): its locals are gone
LocalsGone ==
    /\ days' = 0
    /\ cut' = 0
    /\ size0' = 0
    /\ todo' = {}
    /\ cleaned' = [i \in Ids |-> NoTask]

\* cutoff_date = now - timedelta(days); cleaned_tasks = {}; the for statement
\* takes an iterator over self.active_tasks.items()
CleanupCall(d) ==
    /\ clpc = "idle"
    /\ days' = d
    /\ cut' = Len(log)
    /\ size0' = Cardinality(Keys(active))
    /\ todo' = Keys(active)
    /\ cleaned' = [i \in Ids |-> NoTask]
    /\ clerr' = None
    /\ clpc' = "iter"
    /\ UNCHANGED <<sideVars, selectVars, scrollVars, stopVars,
                   now, progVars, cpc, ctask, last, histVars>>

\* the iterator finds the dict's size changed: RuntimeError leaves the call
CleanupChanged ==
    /\ clpc = "iter"
    /\ Cardinality(Keys(active)) # size0
    /\ clerr' = "RuntimeError"
    /\ clpc' = "raised"
    /\ LocalsGone
    /\ UNCHANGED <<sideVars, selectVars, scrollVars, stopVars,
                   now, progVars, cpc, ctask, last, histVars>>

\* one pass of the loop body, for the item with key i: a terminal task is
\* kept when its completed_at is after the cutoff (KeyError when it has no
\* completed_at), any other task is kept
CleanupIter(i) ==
    /\ clpc = "iter"
    /\ Cardinality(Keys(active)) = size0
    /\ i \in todo
    /\ IF status[active[i]] \in Terminal /\ ~HasCompletedAt(active[i])
         THEN /\ clerr' = "KeyError"
              /\ clpc' = "raised"
              /\ LocalsGone
         ELSE /\ todo' = todo \ {i}
              /\ cleaned' = IF status[active[i]] \in Terminal /\ ~Newer(active[i])
                               THEN cleaned
                               ELSE [cleaned EXCEPT ![i] = active[i]]
              /\ UNCHANGED <<days, cut, size0, clerr, clpc>>
    /\ UNCHANGED <<sideVars, selectVars, scrollVars, stopVars,
                   now, progVars, cpc, ctask, last, histVars>>

\* the iterator is exhausted: the loop ends
CleanupEnd ==
    /\ clpc = "iter"
    /\ Cardinality(Keys(active)) = size0
    /\ todo = {}
    /\ clpc' = "assign"
    /\ UNCHANGED <<sideVars, selectVars, scrollVars, stopVars, days, cut, size0, todo,
                   cleaned, clerr, now, progVars, cpc, ctask, last, histVars>>

\* self.active_tasks = cleaned_tasks
CleanupAssign ==
    /\ clpc = "assign"
    /\ active' = cleaned
    /\ clpc' = "save"
    /\ UNCHANGED <<sideVars, selectVars, scrollVars, stopVars, days, cut, size0, todo,
                   cleaned, clerr, now, pc, taskVars, queue, jobs, file, wpc, cur,
                   cpc, ctask, last, histVars>>

\* self._save_task_history(), and the call returns
CleanupSave ==
    /\ clpc = "save"
    /\ _save_task_history(active, status)
    /\ clpc' = "returned"
    /\ LocalsGone
    /\ UNCHANGED <<sideVars, selectVars, scrollVars, stopVars,
                   clerr, now, pc, taskVars, queue, active, jobs, wpc, cur,
                   cpc, ctask, last, histVars>>

Cleanup ==
    \/ \E d \in DaysArgs : CleanupCall(d)
    \/ CleanupChanged
    \/ \E i \in Ids : CleanupIter(i)
    \/ CleanupEnd
    \/ CleanupAssign
    \/ CleanupSave

NextCleanup == Next \/ Cleanup

\* the scheduler with one call of cleanup_old_tasks from a caller's thread
SpecCleanup == Init /\ [][NextCleanup]_vars

\* ------------------------------------------------------------ properties

StartsOf(t) == {k \in 1..Len(log) : log[k] = <<"start", t>>}
EndsOf(t) == {k \in 1..Len(log) : log[k][2] = t /\ log[k][1] # "start"}
Started(t) == StartsOf(t) # {}
Raised(t) == \E k \in 1..Len(log) : log[k] = <<"raised", t>>
OnQueue(q, t) == Cardinality({k \in 1..Len(q) : q[k] = t})
Running == {t \in Tasks : status[t] = "running"}

\* C1 (single-flight): at most one task is in state running at any time, the
\* running task is the one the worker has in hand, and in the worker's history
\* every start is preceded by the end (return or raise) of the start before it.
C1_SingleFlight ==
    /\ Cardinality(Running) <= 1
    /\ \A t \in Running : cur = t /\ wpc = "run"
    /\ \A k \in 1..Len(log) :
        IF log[k][1] = "start"
          THEN k > 1 => log[k - 1][1] # "start"
          ELSE k > 1 /\ log[k - 1] = <<"start", log[k][2]>>

\* a task is running while another one waits at the head of the queue
C1_Witness ==
    \E t \in Tasks : status[t] = "running" /\ queue # <<>> /\ Head(queue) # t

Edges ==
    { <<"scheduled", "queued">>, <<"queued", "running">>,
      <<"running", "completed">>, <<"running", "failed">>,
      <<"scheduled", "cancelled">>, <<"queued", "cancelled">> }

\* C2 (task lifecycle): every change of a task's state follows an edge of
\* scheduled -> queued -> running -> {completed, failed} or
\* scheduled/queued -> cancelled; in particular nothing leaves a terminal
\* state and nothing goes from running back to queued.
C2_Lifecycle ==
    [][\A t \in Tasks :
          (status[t] # None /\ status'[t] # status[t])
              => <<status[t], status'[t]>> \in Edges]_vars

C4_IdempotentCancel ==
    [][/\ (cpc = "idle" /\ cpc' # "idle" /\ last'.seen \in Terminal \cup {None})
             => (cpc' = "ret" /\ last'.res = "False" /\ UNCHANGED progVars)
       /\ (cpc = "ret" /\ cpc' # "ret" /\ last.seen \in Terminal \cup {None})
             => (last.res = "False" /\ UNCHANGED progVars)]_vars

\* a cancel call on a completed task is about to return (False)
C4_Witness == cpc = "ret" /\ last.seen = "completed"

\* C5 (pre-execution cancellation): a task for which cancel returned True
\* never afterwards becomes running, completed or failed.
C5_CancelledNeverRuns ==
    [][\A t \in okCancelled :
          status'[t] \in {"running", "completed", "failed"}
              => status'[t] = status[t]]_vars

\* C6 (FIFO): if immediate task A's submit returned before immediate task B's
\* began, then once B has started, A started before it and ended before it.
C6_Fifo ==
    \A a, b \in Tasks :
        (a \in pred[b] /\ stype[a] = "immediate" /\ stype[b] = "immediate"
           /\ Started(b))
        => \E i \in StartsOf(a), j \in EndsOf(a), k \in StartsOf(b) :
               i < j /\ j < k

\* two immediate tasks submitted one after the other have both been started
C6_Witness ==
    \E a, b \in Tasks :
        /\ a \in pred[b] /\ stype[a] = "immediate" /\ stype[b] = "immediate"
        /\ Started(b)

C8_StatusReturnsTask ==
    \A t \in Tasks : pc[t] = "returned" => get_task_status(tid[t]) = t

FileShows(t) ==
    tid[t] \in Ids /\ active[tid[t]] = t /\ file.active_tasks[tid[t]] = status[t]

\* C10 (persisted immediately): when any task changes state, every task that
\* changed state earlier is shown by the file with the state it has in memory.
C10_PersistedBeforeNext ==
    [][(\E u \in Tasks : status[u] # None /\ status'[u] # status[u]) =>
          \A t \in Tasks :
              status[t] \notin {None, "scheduled"} => FileShows(t)]_vars

\* C11 (restart recovery): every task the file shows is reported by
\* get_task_status with the state the file shows, also after the process has
\* restarted; and no step (not the start of a new instance, not its first
\* save) removes a task from the file.
C11_RestartRecovery ==
    /\ [](\A i \in Ids : file.active_tasks[i] # None =>
            /\ get_task_status(i) # NoTask
            /\ status[get_task_status(i)] = file.active_tasks[i])
    /\ [][\A i \in Ids : file.active_tasks[i] # None
                            => file'.active_tasks[i] # None]_vars

\* the ids in the recent-history list of the file
FileHistoryIds == {file.task_history[k] : k \in 1..Len(file.task_history)}

\* C12 (bounded recent history): the recent-history list of the file never
\* holds more than HistoryKeep entries, and it holds every task that has
\* reached completed, failed or cancelled (all of them while there are at
\* most HistoryKeep such tasks, as is the case for NTasks tasks).
C12_RecentHistory ==
    /\ Len(file.task_history) <= HistoryKeep
    /\ \A t \in Tasks : status[t] \in Terminal => tid[t] \in FileHistoryIds

\* C13 (single writer): every step that changes the task-history file is a
\* step of the worker thread; no step of a submit or cancel call changes it.
C13_SingleWriter == [][file' # file => Worker]_vars

\* C14 (status and cancel are never blocked): in every reachable state,
\* whatever the worker is doing, get_task_status returns (a task or None) for
\* every id, and the cancel call can take its next step: start with any id,
\* write the cancellation, or return.
C14_NeverBlocked ==
    /\ \A i \in Ids : get_task_status(i) \in Tasks \cup {NoTask}
    /\ cpc = "idle" => \A i \in CancelIds : ENABLED CancelCheck(i)
    /\ cpc = "set" => ENABLED CancelSet
    /\ cpc = "ret" => ENABLED CancelReturn

\* a cancel call has cancelled one task while the worker executes another
C14_Witness ==
    /\ wpc = "run" /\ cpc = "ret" /\ last.res = "True"
    /\ get_task_status(tid[cur]) # NoTask

\* C15 (one browser session): at most one browser session is alive at any
\* time, also while a page is scraped and while a listing is extracted.
C15_OneSession == SessionsAlive <= 1

\* C16 (guaranteed release): every session created has been closed by exactly
\* one quit() or is still alive (no quit() without a session of its own), the
\* session of get_product_details is closed before the next container is
\* examined, and when scrape_category returns no session is alive: on normal
\* completion, after an empty page, at a budget, and after an exception.
C16_Release ==
    /\ created = quits + SessionsAlive
    /\ kpc # "details" => ddriver = None
    /\ kpc \in {"idle", "start"} => driver = None
    /\ kpc = "done" => SessionsAlive = 0 /\ quits = created

\* scrape_category has returned at its item budget after it closed its own
\* session and those of get_product_details
C16_Witness ==
    kpc = "done" /\ created > 2 /\ Len(all_items) = max_items /\ driver = "closed"

\* C17 (single crawl in the front end): at most one run_scraper thread is
\* active at any time.
C17_SingleRun == Cardinality(ActiveRuns) <= 1

RECURSIVE SumLen(_)
\* the number of records in a sequence of page results
SumLen(g) == IF g = <<>> THEN 0 ELSE Len(Head(g)) + SumLen(Tail(g))

\* C18 (budget respect): all_items never holds more than max_items records,
\* and when scrape_category returns after scrape_page returned at least
\* max_items records in all, it returns exactly max_items.
C18_Budget ==
    /\ Len(all_items) <= max_items
    /\ (kpc = "done" /\ SumLen(got) >= max_items) => Len(all_items) = max_items

\* scrape_category has returned max_items records, fewer than the pages held
C18_Witness ==
    kpc = "done" /\ SumLen(got) > max_items /\ Len(all_items) = max_items

\* C19 (pagination): a call of scrape_category returns; the pages requested
\* are 1, 2, 3, ... in order, none above max_pages; after the first page for
\* which scrape_page returns no record no later page is requested; and the
\* call then returns, as usual, the records of the pages before it.
C19_Pagination ==
    /\ [](/\ \A k \in 1..Len(requested) : requested[k] = k /\ k <= max_pages
          /\ \A k \in 1..Len(got) : got[k] = <<>> => Len(requested) = k
          /\ (kpc = "done" /\ got # <<>> /\ got[Len(got)] = <<>>)
                => Len(all_items) = SumLen(got))
    /\ (kpc = "start") ~> (kpc = "done")

\* scrape_category has returned records after it stopped at an empty page
\* that was not the last page allowed
C19_Witness ==
    /\ kpc = "done" /\ all_items # <<>>
    /\ got[Len(got)] = <<>> /\ nav[Len(nav)] = "ok"
    /\ Len(requested) < max_pages

\* C20 (dedup): no two records of the list scrape_category returns have the
\* same url.
C20_Dedup ==
    kpc = "done" =>
        \A i, j \in 1..Len(all_items) : i # j => all_items[i] # all_items[j]

RECURSIVE Concat(_)
\* the page results of a sequence put one after the other
Concat(g) == IF g = <<>> THEN <<>> ELSE Head(g) \o Concat(Tail(g))
\* the records held by each page scrape_page has returned from, page by page
PagesRead == [k \in 1..Len(got) |-> Valid(loaded[k])]

\* C21 (result order): the list scrape_category returns is the first
\* min(max_items, total) records of the records the visited pages hold, taken
\* page after page and within a page in container order.
C21_ResultOrder ==
    kpc = "done" => all_items = Take(Concat(PagesRead), max_items)

\* scrape_category has returned records of two pages, the first page holding
\* two different records, cut at max_items
C21_Witness ==
    /\ kpc = "done" /\ Len(got) >= 2
    /\ Len(Valid(loaded[1])) = 2 /\ loaded[1][1] # loaded[1][2]
    /\ Valid(loaded[2]) # <<>>
    /\ Len(Concat(PagesRead)) > max_items /\ Len(all_items) = max_items
    /\ max_items > 2

\* C22 (empty result is a failure): a call of scrape_category that collected
\* no record over all its pages does not return normally (it fails with
\* NoResultsError and its task ends failed); only a call that collected at
\* least one record returns.
C22_NoResults == kpc = "done" => all_items # <<>>

\* C23 (partial success on navigation failure): once the navigation of page k
\* has failed, no further page is requested and all_items is, then and when
\* scrape_category returns, exactly the records of pages 1..k-1 in order.
C23_PartialSuccess ==
    \A k \in 1..Len(nav) : nav[k] = "failed" =>
        /\ Len(requested) = k
        /\ all_items = Concat([j \in 1..(k - 1) |-> Valid(loaded[j])])

\* scrape_category has returned the records of the pages before page k >= 2,
\* whose navigation failed before max_pages was reached
C23_Witness ==
    /\ kpc = "done" /\ Len(nav) >= 2 /\ nav[Len(nav)] = "failed"
    /\ all_items # <<>> /\ Len(nav) < max_pages

\* C24 (retry count): safe_get makes at most max_retries navigation attempts;
\* when it returns True every attempt before the last one failed and was
\* followed by exactly one sleep; it returns False only after max_retries
\* failed attempts, with a sleep after each but the last.
C24_RetryCount ==
    /\ gets <= max_retries
    /\ Len(sleeps) <= fails
    /\ result = "true" => gets = fails + 1 /\ Len(sleeps) = fails
    /\ result = "false" =>
           gets = max_retries /\ fails = max_retries /\ Len(sleeps) = max_retries - 1

\* fail, fail, success: safe_get has returned True at its third attempt
\* after exactly two sleeps
C24_Witness ==
    result = "true" /\ fails = 2 /\ gets = 3 /\ Len(sleeps) = 2

RECURSIVE Pow2(_)
Pow2(a) == IF a = 0 THEN 1 ELSE 2 * Pow2(a - 1)

\* C25 (exponential backoff): there is a base delay b such that the delay
\* slept after failed attempt number a (a = 0, 1, ...) is b * 2^a up to a
\* jitter of one half either way, so that the nominal delay doubles from one
\* retry to the next.
C25_Backoff ==
    \E b \in 1..MaxBase :
        \A k \in 1..Len(sleeps) :
            /\ 2 * sleeps[k] >= b * Pow2(k - 1)
            /\ 2 * sleeps[k] <= 3 * b * Pow2(k - 1)

\* C26 (challenge cooldown): a safe_get call never makes more than one
\* cooldown sleep, and when it returns after _detect_antibot found a challenge
\* it has made exactly one.
C26_OneCooldown ==
    /\ cooldowns <= 1
    /\ (result \in {"true", "false"} /\ detected) => cooldowns = 1

\* C27 (challenge re-check): safe_get returns True only for a page that shows
\* no challenge when it returns: after a cooldown the detection is run again
\* and a challenge that is still there makes the call fail.
C27_Recheck == result = "true" => ~challenge

\* C28 (identity rotation): current_proxy_index changes only in a step that
\* creates a session, the k-th session created is bound to pool entry
\* (k-1) mod n of a pool of n > 0 proxies, and with an empty pool no session
\* has a proxy and the index stays where it is.
C28_Rotation ==
    /\ [][current_proxy_index' # current_proxy_index
             => Len(bound') = Len(bound) + 1]_vars
    /\ [](\A k \in 1..Len(bound) :
             bound[k] = IF nproxies = 0 THEN NoProxy ELSE (k - 1) % nproxies)
    /\ [](nproxies = 0 => current_proxy_index = 0)

\* C29 (required fields): every record extract_item_data returns has a
\* non-empty title, url and image url and a parsed price greater than 0; a
\* listing whose price text holds no number or parses to 0 gives no record.
C29_RequiredFields ==
    item_data.kind = "data" =>
        /\ item_data.title # ""
        /\ item_data.url # ""
        /\ item_data.image_url # ""
        /\ item_data.price.kind = "float"
        /\ item_data.price.value > 0

\* C30 (extraction failures are absorbed per listing): what scrape_page
\* returns for a page is exactly the records of its valid containers, in
\* container order, however many containers extract_item_data fails on; and
\* while a page is being read, the records taken so far followed by those of
\* the containers still to examine are the same list.
C30_Absorbed ==
    /\ \A k \in 1..Len(got) : got[k] = Valid(loaded[k])
    /\ kpc \in {"extract", "details"} =>
           items \o Valid(listings) = Valid(loaded[Len(loaded)])

\* scrape_page has returned the record of the second container of a page
\* whose first container failed
C30_Witness ==
    \E k \in 1..Len(got) :
        Len(loaded[k]) = 2 /\ loaded[k][1] = Bad /\ got[k] = <<loaded[k][2]>>

\* the selectors of the chain that find an element in the container
Matching == {i \in 1..Len(tag) : tag[i] # None}

\* C31 as stated: the value is that of the first matching selector of the
\* chain, and the field is empty exactly when no selector matches.
C31_AsStated ==
    field.kind # "new" =>
        /\ Matching # {} =>
               \E i \in Matching :
                   /\ \A j \in Matching : i <= j
                   /\ field = [kind |-> "text", text |-> tag[i]]
        /\ (field.kind = "none" \/ field = [kind |-> "text", text |-> ""])
               <=> Matching = {}

\* C31 (selector fallback chain, amended): the value is the text of the element
\* found by the first matching selector of the chain, whatever later selectors
\* find and also when that text is blank; _find_element returns that
\* element; and the value is None exactly when no selector matches.
C31_Fallback ==
    field.kind # "new" =>
        /\ Matching # {} =>
               \E i \in Matching :
                   /\ \A j \in Matching : i <= j
                   /\ field = [kind |-> "text", text |-> tag[i]]
                   /\ found = i
        /\ Matching = {} <=> field.kind = "none"
        /\ Matching = {} <=> found = 0

\* the first selector found nothing, the second found an element and so did
\* the third, with another text: the value is the second's
C31_Witness ==
    /\ Len(tag) >= 3 /\ tag[1] = None /\ tag[2] = "a" /\ tag[3] = "b"
    /\ field = [kind |-> "text", text |-> "a"] /\ found = 2

\* C32 (scroll terminates): scroll_page goes round its loop again only after
\* a reading that differs from the one before and stops at the first reading
\* that equals it; when it returns it has scrolled once per change of the
\* reading plus once; and on a page that grows finitely often the call ends.
C32_ScrollTerminates ==
    /\ [][(qpc = "read" /\ qpc' \in {"scroll", "done"})
             => (qpc' = "done" <=> height = last_height)]_vars
    /\ [](qpc = "done" => height = last_height /\ scrolls = changes + 1)
    /\ (qpc = "scroll") ~> (qpc \in {"done", "raised"})

\* scroll_page has returned after the page grew MaxGrowth times
C32_Witness ==
    qpc = "done" /\ growth = 0 /\ changes = MaxGrowth /\ scrolls = MaxGrowth + 1

\* C33 (unique ids): any two submit calls return different task ids, also
\* within one clock second.
C33_UniqueIds ==
    \A t, u \in Tasks :
        (t # u /\ pc[t] = "returned" /\ pc[u] = "returned") => tid[t] # tid[u]

\* the state status() reports for the id of task t (None before t has an id)
Reported(t) == IF pc[t] = "idle" THEN None ELSE Seen(tid[t])

\* C34 (worker progress): under a fair worker whose executions terminate,
\* every immediate task whose submit has returned and that is never cancelled
\* eventually has Completed or Failed as the state status() reports for its
\* id, and keeps a terminal reported state forever after.
C34_WorkerProgress ==
    \A t \in Tasks :
        [](pc[t] = "returned" /\ stype[t] = "immediate"
             => <>(\/ t \in okCancelled
                   \/ [](Reported(t) \in {"completed", "failed"})))

\* C35 (deferred tasks fire): every task submitted with a schedule type
\* other than immediate, whose submit has returned and that is never
\* cancelled, eventually leaves Scheduled and becomes Queued.
C35_DeferredFire ==
    \A t \in Tasks :
        [](pc[t] = "returned" /\ stype[t] # "immediate"
             => <>(t \in okCancelled \/ status[t] = "queued"))

\* C36 (shutdown): the worker takes at most one task off the queue after the
\* stop event is set; once the worker thread has ended it stays ended, no task
\* leaves the queue, and a Queued task on the queue stays Queued unless a
\* cancel call cancels it; and once stop() is called the worker thread ends
\* and stop() returns.
C36_Shutdown ==
    /\ [](after <= 1)
    /\ [][wpc = "exited" =>
             /\ wpc' = "exited"
             /\ Len(queue') >= Len(queue)
             /\ SubSeq(queue', 1, Len(queue)) = queue
             /\ \A k \in 1..Len(queue) :
                    status[queue[k]] = "queued" =>
                        \/ status'[queue[k]] = "queued"
                        \/ cpc = "set" /\ status'[queue[k]] = "cancelled"]_vars
    /\ stop_event ~> (wpc = "exited" /\ stpc = "returned")

\* stop() has returned after the worker took one more task, and a Queued
\* task is still on the queue
C36_Witness ==
    /\ stpc = "returned"
    /\ wpc = "exited"
    /\ after = 1
    /\ queue # <<>>
    /\ status[Head(queue)] = "queued"

\* C37 (cleanup): cleanup_old_tasks completes without error on a table that
\* holds terminal tasks: it never fails on a Completed, Failed or Cancelled
\* task.
C37_CleanupCompletes == clerr # "KeyError"

\* C38 (no lost submission): when a submit call and the cleanup_old_tasks
\* call have both returned, the id of a submitted task that is not terminal
\* is in the task table.
C38_NoLostSubmission ==
    \A t \in Tasks :
        (clpc = "returned" /\ pc[t] = "returned" /\ status[t] \notin Terminal)
            => tid[t] \in Keys(active)

====
